---- MODULE Spec2Model ----
\* Request lifecycle of OpenRouterApiService (src/unnamed/part_000):
\* generateText registers a cancellation Subject and a metadata record under
\* a request id and returns a cold observable; subscribing to it issues the
\* HTTP call; the tap handlers and abortRequest write the terminal audit log
\* and release the registration through cleanupRequest.
\*
\* Every action is one synchronous run-to-completion step of the JavaScript
\* event loop.  In Spec the AIRequestLoggerService is a logger whose calls
\* return normally and whose logRequest hands out a fresh log id per call;
\* SpecLoggerFails adds the steps in which a logger call throws, SpecUniqueIds
\* keeps Spec's steps but only lets generateText be called with an id that is
\* not registered, and SpecBuild applies the pure parts of generateText (the
\* logRequest arguments, the request body, the logged error message).
\* Every observable returned by generateText is subscribed at most once and
\* never unsubscribed by its caller, and the caller's own callbacks do not call
\* back into the service while a handler of the service is running.
\* startTime and the durations computed from it are left out.
EXTENDS Integers, Sequences, FiniteSets, TLC

\* ---------------------------------------------------------------- bounds
\* Number of generateText calls that pass validation in one behaviour.
MaxReq == 2

\* ---------------------------------------------------------------- values
\* JavaScript `undefined` for an option the caller left out.
Undefined == "undefined"

\* JavaScript truthiness of an optional string: undefined and "" are falsy.
Truthy(s) == s # Undefined /\ s # ""

\* Request ids a caller passes in options.requestId / abortRequest.
CallerIds == {"a", "b"}

\* Ids made by generateRequestId: 'req_' + Date.now() + '_' + random suffix,
\* a fresh string per call; n is the ordinal of the call.
GenNames == <<"req_1", "req_2", "req_3", "req_4", "req_5", "req_6">>
generateRequestId(n) == GenNames[n]

RequestIds == CallerIds \cup {generateRequestId(n) : n \in 1..MaxReq}

\* settingsService.getSettings().openRouter, the fields generateText validates.
SettingsValues == [enabled : BOOLEAN, apiKey : {"", "sk-key"}, model : {"", "m0"}]

\* The options of generateText that decide validation and the request id.
OptionsValues == [model : {Undefined, "", "m1"}, requestId : {Undefined, ""} \cup CallerIds]

Outcomes == {"success", "error"}

\* ---------------------------------------------------------------- state
VARIABLES
    abortSubjects,    \* Map<string, Subject<void>>: request id -> Subject (by call ordinal)
    requestMetadata,  \* Map<string, {logId, startTime}>: request id -> [logId]
    subjects,         \* the Subjects made by generateText, by call ordinal
    ops,              \* the observables returned by generateText, by call ordinal
    aiLog,            \* the audit log: per log id, the terminal calls made with it
    lastOp            \* history: the last call or callback that ran

vars == <<abortSubjects, requestMetadata, subjects, ops, aiLog, lastOp>>

\* ---------------------------------------------------------------- maps
MapSet(m, k, v) == [x \in DOMAIN m \cup {k} |-> IF x = k THEN v ELSE m[x]]
MapDelete(m, k) == [x \in DOMAIN m \ {k} |-> m[x]]
EmptyMap == [x \in {} |-> 0]

\* ---------------------------------------------------------------- helpers
\* Variant of the guard without the API-key test.
ValidationThrows_NoKeyCheck(settings, options) ==
    \/ ~settings.enabled
    \/ ~Truthy(IF Truthy(options.model) THEN options.model ELSE settings.model)

\* The guard of generateText: the two throw statements.
ValidationThrows(settings, options) ==
    \/ ~settings.enabled \/ ~Truthy(settings.apiKey)
    \/ ~Truthy(IF Truthy(options.model) THEN options.model ELSE settings.model)

\* const requestId = options.requestId || this.generateRequestId()
ResolveRequestId(options, n) ==
    IF Truthy(options.requestId) THEN options.requestId ELSE generateRequestId(n)

\* Subject.complete(): the Subject is stopped and drops its observers.
SubjectComplete(subjs, s) ==
    [subjs EXCEPT ![s] = [@ EXCEPT !.stopped = TRUE, !.observed = FALSE]]

\* Variant of cleanupRequest without this.requestMetadata.delete(requestId).
cleanupRequest_KeepsMetadata(st, requestId) ==
    [abortSubjects   |-> MapDelete(st.abortSubjects, requestId),
     requestMetadata |-> st.requestMetadata,
     subjects        |-> IF requestId \in DOMAIN st.abortSubjects
                         THEN SubjectComplete(st.subjects, st.abortSubjects[requestId])
                         ELSE st.subjects]

\* Variant of cleanupRequest that clears both maps instead of deleting one key.
cleanupRequest_ClearsAll(st, requestId) ==
    [abortSubjects   |-> EmptyMap,
     requestMetadata |-> EmptyMap,
     subjects        |-> IF requestId \in DOMAIN st.abortSubjects
                         THEN SubjectComplete(st.subjects, st.abortSubjects[requestId])
                         ELSE st.subjects]

\* cleanupRequest(requestId), on the record st of the two maps and the Subjects.
cleanupRequest(st, requestId) ==
    [abortSubjects   |-> MapDelete(st.abortSubjects, requestId),
     requestMetadata |-> MapDelete(st.requestMetadata, requestId),
     subjects        |-> IF requestId \in DOMAIN st.abortSubjects
                         THEN SubjectComplete(st.subjects, st.abortSubjects[requestId])
                         ELSE st.subjects]

Stores == [abortSubjects |-> abortSubjects, requestMetadata |-> requestMetadata,
           subjects |-> subjects]

\* The history record of one call or callback.
OpRecord(op, id, threw) ==
    [op |-> op, id |-> id, threw |-> threw,
     again |-> (lastOp.op = op /\ lastOp.id = id),
     logFailed |-> FALSE]

\* The history record of a call or callback in which the logger call threw.
LogFailedRecord(op, id, threw) ==
    [OpRecord(op, id, threw) EXCEPT !.logFailed = TRUE]

\* ---------------------------------------------------------------- Init
Init ==
    /\ abortSubjects = EmptyMap
    /\ requestMetadata = EmptyMap
    /\ subjects = <<>>
    /\ ops = <<>>
    /\ aiLog = <<>>
    /\ lastOp = [op |-> "init", id |-> Undefined, threw |-> FALSE, again |-> FALSE,
                 logFailed |-> FALSE]

\* ---------------------------------------------------------------- actions
\* generateText(prompt, options) with the settings snapshot it reads.
GenerateText(settings, options) ==
    IF ValidationThrows(settings, options)
    THEN /\ lastOp' = OpRecord("generateText", Undefined, TRUE)
         /\ UNCHANGED <<abortSubjects, requestMetadata, subjects, ops, aiLog>>
    ELSE LET n == Len(ops) + 1
             logId == Len(aiLog) + 1
             requestId == ResolveRequestId(options, n)
         IN /\ Len(ops) < MaxReq
            /\ aiLog' = Append(aiLog, <<>>)
            /\ subjects' = Append(subjects, [stopped |-> FALSE, observed |-> FALSE, signals |-> 0])
            /\ abortSubjects' = MapSet(abortSubjects, requestId, n)
            /\ requestMetadata' = MapSet(requestMetadata, requestId, [logId |-> logId])
            /\ ops' = Append(ops, [requestId |-> requestId, logId |-> logId, phase |-> "cold"])
            /\ lastOp' = OpRecord("generateText", requestId, FALSE)

\* The caller subscribes to the observable of call n: takeUntil subscribes to
\* the Subject (a stopped Subject only completes, which takeUntil ignores) and
\* then to the HTTP source, which issues the POST.
Subscribe(n) ==
    /\ n \in 1..Len(ops)
    /\ ops[n].phase = "cold"
    /\ ops' = [ops EXCEPT ![n].phase = "inflight"]
    /\ subjects' = [subjects EXCEPT ![n].observed = ~subjects[n].stopped]
    /\ lastOp' = OpRecord("subscribe", ops[n].requestId, FALSE)
    /\ UNCHANGED <<abortSubjects, requestMetadata, aiLog>>

\* Variant of the tap handlers in which the error handler does not call
\* cleanupRequest.
Settle_ErrorSkipsCleanup(n, outcome) ==
    /\ n \in 1..Len(ops)
    /\ ops[n].phase = "inflight"
    /\ LET st == IF outcome = "error" THEN Stores ELSE cleanupRequest(Stores, ops[n].requestId)
       IN /\ aiLog' = [aiLog EXCEPT ![ops[n].logId] = Append(@, outcome)]
          /\ abortSubjects' = st.abortSubjects
          /\ requestMetadata' = st.requestMetadata
          \* the source has ended: takeUntil drops its subscription to the Subject
          /\ subjects' = [st.subjects EXCEPT ![n].observed = FALSE]
    /\ ops' = [ops EXCEPT ![n].phase = IF outcome = "success" THEN "succeeded" ELSE "failed"]
    /\ lastOp' = OpRecord(outcome, ops[n].requestId, FALSE)

\* The HTTP call of call n settles; the tap handler (next or error) runs.
Settle(n, outcome) ==
    /\ n \in 1..Len(ops)
    /\ ops[n].phase = "inflight"
    /\ LET st == cleanupRequest(Stores, ops[n].requestId)
       IN /\ aiLog' = [aiLog EXCEPT ![ops[n].logId] = Append(@, outcome)]
          /\ abortSubjects' = st.abortSubjects
          /\ requestMetadata' = st.requestMetadata
          \* the source has ended: takeUntil drops its subscription to the Subject
          /\ subjects' = [st.subjects EXCEPT ![n].observed = FALSE]
    /\ ops' = [ops EXCEPT ![n].phase = IF outcome = "success" THEN "succeeded" ELSE "failed"]
    /\ lastOp' = OpRecord(outcome, ops[n].requestId, FALSE)

\* Variant of abortRequest without the call of cleanupRequest.
AbortRequest_NoCleanup(requestId) ==
    /\ lastOp' = OpRecord("abortRequest", requestId, FALSE)
    /\ IF requestId \in DOMAIN abortSubjects /\ requestId \in DOMAIN requestMetadata
       THEN LET s == abortSubjects[requestId]
            IN /\ aiLog' = [aiLog EXCEPT ![requestMetadata[requestId].logId] = Append(@, "aborted")]
               /\ ops' = IF subjects[s].observed
                         THEN [ops EXCEPT ![s].phase = "cancelled"]
                         ELSE ops
               /\ subjects' = [subjects EXCEPT ![s].signals = @ + 1]
               /\ UNCHANGED <<abortSubjects, requestMetadata>>
       ELSE UNCHANGED <<abortSubjects, requestMetadata, subjects, ops, aiLog>>

\* Variant of abortRequest without the `if (abortSubject && metadata)` guard:
\* metadata.startTime of an unregistered id is a TypeError.
AbortRequest_NoGuard(requestId) ==
    IF requestId \in DOMAIN abortSubjects /\ requestId \in DOMAIN requestMetadata
    THEN LET s == abortSubjects[requestId]
             signalled == [subjects EXCEPT ![s].signals = @ + 1]
             st == cleanupRequest([abortSubjects |-> abortSubjects,
                                   requestMetadata |-> requestMetadata,
                                   subjects |-> signalled], requestId)
         IN /\ lastOp' = OpRecord("abortRequest", requestId, FALSE)
            /\ aiLog' = [aiLog EXCEPT ![requestMetadata[requestId].logId] = Append(@, "aborted")]
            /\ ops' = IF subjects[s].observed
                      THEN [ops EXCEPT ![s].phase = "cancelled"]
                      ELSE ops
            /\ abortSubjects' = st.abortSubjects
            /\ requestMetadata' = st.requestMetadata
            /\ subjects' = st.subjects
    ELSE /\ lastOp' = OpRecord("abortRequest", requestId, TRUE)
         /\ UNCHANGED <<abortSubjects, requestMetadata, subjects, ops, aiLog>>

\* abortRequest(requestId)
AbortRequest(requestId) ==
    /\ lastOp' = OpRecord("abortRequest", requestId, FALSE)
    /\ IF requestId \in DOMAIN abortSubjects /\ requestId \in DOMAIN requestMetadata
       THEN LET s == abortSubjects[requestId]
                \* abortSubject.next(): takeUntil of the observing call completes it
                signalled == [subjects EXCEPT ![s].signals = @ + 1]
                st == cleanupRequest([abortSubjects |-> abortSubjects,
                                      requestMetadata |-> requestMetadata,
                                      subjects |-> signalled], requestId)
            IN /\ aiLog' = [aiLog EXCEPT ![requestMetadata[requestId].logId] = Append(@, "aborted")]
               /\ ops' = IF subjects[s].observed
                         THEN [ops EXCEPT ![s].phase = "cancelled"]
                         ELSE ops
               /\ abortSubjects' = st.abortSubjects
               /\ requestMetadata' = st.requestMetadata
               /\ subjects' = st.subjects
       ELSE UNCHANGED <<abortSubjects, requestMetadata, subjects, ops, aiLog>>

Next ==
    \/ \E settings \in SettingsValues, options \in OptionsValues : GenerateText(settings, options)
    \/ \E n \in 1..MaxReq : Subscribe(n)
    \/ \E n \in 1..MaxReq, outcome \in Outcomes : Settle(n, outcome)
    \/ \E requestId \in RequestIds : AbortRequest(requestId)

Spec == Init /\ [][Next]_vars

\* ------------------------------------------------- a logger that can throw
\* generateText when aiLogger.logRequest throws: the exception leaves
\* generateText before the request id is resolved and anything is registered.
GenerateTextLogFails(settings, options) ==
    /\ ~ValidationThrows(settings, options)
    /\ lastOp' = LogFailedRecord("generateText", Undefined, TRUE)
    /\ UNCHANGED <<abortSubjects, requestMetadata, subjects, ops, aiLog>>

\* The tap handler of call n when aiLogger.logSuccess / logError throws: the
\* handler stops before cleanupRequest, and tap sends the exception to the
\* subscriber as an error, which ends the subscription.  aiLog keeps the
\* logger calls that returned.
SettleLogFails(n, outcome) ==
    /\ n \in 1..Len(ops)
    /\ ops[n].phase = "inflight"
    /\ subjects' = [subjects EXCEPT ![n].observed = FALSE]
    /\ ops' = [ops EXCEPT ![n].phase = "failed"]
    /\ lastOp' = LogFailedRecord(outcome, ops[n].requestId, TRUE)
    /\ UNCHANGED <<abortSubjects, requestMetadata, aiLog>>

\* abortRequest when aiLogger.logAborted throws: the exception leaves
\* abortRequest before abortSubject.next() and cleanupRequest.
AbortRequestLogFails(requestId) ==
    /\ requestId \in DOMAIN abortSubjects /\ requestId \in DOMAIN requestMetadata
    /\ lastOp' = LogFailedRecord("abortRequest", requestId, TRUE)
    /\ UNCHANGED <<abortSubjects, requestMetadata, subjects, ops, aiLog>>

NextLoggerFails ==
    \/ Next
    \/ \E settings \in SettingsValues, options \in OptionsValues :
            GenerateTextLogFails(settings, options)
    \/ \E n \in 1..MaxReq, outcome \in Outcomes : SettleLogFails(n, outcome)
    \/ \E requestId \in RequestIds : AbortRequestLogFails(requestId)

SpecLoggerFails == Init /\ [][NextLoggerFails]_vars

\* ------------------------------------------------- callers that keep ids unique
\* generateText called with settings and options whose request id is not
\* registered at the time of the call.
GenerateTextUnique(settings, options) ==
    /\ \/ ValidationThrows(settings, options)
       \/ ResolveRequestId(options, Len(ops) + 1) \notin DOMAIN abortSubjects
    /\ GenerateText(settings, options)

NextUniqueIds ==
    \/ \E settings \in SettingsValues, options \in OptionsValues :
            GenerateTextUnique(settings, options)
    \/ \E n \in 1..MaxReq : Subscribe(n)
    \/ \E n \in 1..MaxReq, outcome \in Outcomes : Settle(n, outcome)
    \/ \E requestId \in RequestIds : AbortRequest(requestId)

SpecUniqueIds == Init /\ [][NextUniqueIds]_vars

\* ------------------------------------------------- payload and messages
\* The pure parts of generateText: what it sends and logs for given settings
\* and options, and the message its error handler logs for a given error.
\* An optional number or object is <<>> when undefined and <<v>> when present.
\* temperature and top_p are in tenths.
None == <<>>
Some(v) == <<v>>

\* JavaScript truthiness of an optional number: undefined and 0 are falsy.
TruthyNumber(x) == x # None /\ x[1] # 0

\* const maxTokens = options.maxTokens || 500
DefaultMaxTokens == 500
ResolveMaxTokens(options) ==
    IF TruthyNumber(options.maxTokens) THEN options.maxTokens[1] ELSE DefaultMaxTokens

\* const wordCount = options.wordCount || Math.floor(maxTokens / 1.3)
ResolveWordCount(options, maxTokens) ==
    IF TruthyNumber(options.wordCount) THEN options.wordCount[1] ELSE (maxTokens * 10) \div 13

\* const model = options.model || settings.openRouter.model
ResolveModel(settings, options) ==
    IF Truthy(options.model) THEN options.model ELSE settings.model

\* Variant that takes the option by truthiness: option || default.
ResolveSampling_Truthy(option, default) ==
    IF TruthyNumber(option) THEN option[1] ELSE default

\* option !== undefined ? option : default
ResolveSampling(option, default) ==
    IF option # None THEN option[1] ELSE default

\* What generateText passes to logRequest and puts into the request body, or
\* that it threw.
BuildRequest(settings, options) ==
    IF ValidationThrows(settings, options)
    THEN [threw |-> TRUE]
    ELSE LET maxTokens == ResolveMaxTokens(options)
         IN [threw |-> FALSE,
             logRequest |-> [model |-> ResolveModel(settings, options),
                             wordCount |-> ResolveWordCount(options, maxTokens),
                             maxTokens |-> maxTokens],
             request |-> [model |-> ResolveModel(settings, options),
                          max_tokens |-> maxTokens,
                          temperature |-> ResolveSampling(options.temperature, settings.temperature),
                          top_p |-> ResolveSampling(options.topP, settings.topP)]]

\* const errorMessage = error.message || error.error?.message || 'Unknown error'
ErrorMessage(error) ==
    IF Truthy(error.message) THEN error.message
    ELSE IF error.error # None /\ Truthy(error.error[1].message) THEN error.error[1].message
    ELSE "Unknown error"

BuildSettings ==
    [enabled : BOOLEAN, apiKey : {"", "sk-key"}, model : {"", "m0"},
     temperature : {0, 7}, topP : {0, 10}]

BuildOptions ==
    [model : {Undefined, "", "m1"},
     maxTokens : {None, Some(-1), Some(0), Some(130)},
     temperature : {None, Some(0), Some(3)},
     topP : {None, Some(0), Some(9)},
     wordCount : {None, Some(0), Some(250)}]

\* The error the tap handler receives: an HttpErrorResponse-like object with an
\* optional message and an optional body that may carry a message.
ErrorValues ==
    [message : {Undefined, "", "Http failure"},
     error : {None} \cup {Some(body) : body \in [message : {Undefined, "", "Rate limited"}]}]

InitBuild ==
    /\ abortSubjects = EmptyMap
    /\ requestMetadata = EmptyMap
    /\ subjects = <<>>
    /\ ops = <<>>
    /\ aiLog = <<>>
    /\ \/ \E settings \in BuildSettings, options \in BuildOptions :
            lastOp = [op |-> "options", settings |-> settings, options |-> options]
       \/ \E error \in ErrorValues : lastOp = [op |-> "error", error |-> error]

\* generateText up to the request body, on the drawn settings and options.
ApplyBuildRequest ==
    /\ lastOp.op = "options"
    /\ lastOp' = [op |-> "request", settings |-> lastOp.settings, options |-> lastOp.options,
                  result |-> BuildRequest(lastOp.settings, lastOp.options)]
    /\ UNCHANGED <<abortSubjects, requestMetadata, subjects, ops, aiLog>>

\* The error handler of tap up to the logError call, on the drawn error.
ApplyErrorMessage ==
    /\ lastOp.op = "error"
    /\ lastOp' = [op |-> "logError", error |-> lastOp.error,
                  message |-> ErrorMessage(lastOp.error)]
    /\ UNCHANGED <<abortSubjects, requestMetadata, subjects, ops, aiLog>>

NextBuild == ApplyBuildRequest \/ ApplyErrorMessage

SpecBuild == InitBuild /\ [][NextBuild]_vars

TypeOK ==
    /\ DOMAIN abortSubjects \subseteq RequestIds
    /\ DOMAIN requestMetadata \subseteq RequestIds
    /\ Len(ops) = Len(subjects) /\ Len(ops) = Len(aiLog) /\ Len(ops) <= MaxReq

\* ---------------------------------------------------------------- claims
Calls == 1..Len(ops)
Started(n) == ops[n].phase # "cold"
Terminal(n) == aiLog[ops[n].logId] # <<>>
Registered(id) == id \in DOMAIN abortSubjects
FrameUnchanged == UNCHANGED <<abortSubjects, requestMetadata, subjects, ops, aiLog>>

\* C1: every audit entry opened by generateText receives at most one of
\* logSuccess, logError, logAborted.
C1_AtMostOneTerminalLog ==
    \A l \in 1..Len(aiLog) : Len(aiLog[l]) <= 1

\* C2: once abortRequest has logged the abort of a registered request, no
\* transport resolution adds logSuccess or logError to that audit entry.
C2_NoLogAfterAbort ==
    \A l \in 1..Len(aiLog) : \A i, j \in 1..Len(aiLog[l]) :
        (i < j /\ aiLog[l][i] = "aborted") => aiLog[l][j] \notin Outcomes

\* C3: between steps the Cancellation Registry and the Metadata Store hold
\* the same set of request ids.
C3_StoresAgree ==
    DOMAIN abortSubjects = DOMAIN requestMetadata

C3_Witness ==
    /\ DOMAIN abortSubjects # {}
    /\ \E n \in Calls : Terminal(n) /\ ~Registered(ops[n].requestId)

\* C4: the step that writes a terminal log for a request leaves its id in
\* neither store, and an id absent from a store enters it again only by a
\* generateText call that registers it.
C4_TerminalReleases ==
    [][/\ \A n \in Calls :
            Len(aiLog'[ops[n].logId]) > Len(aiLog[ops[n].logId])
            => /\ ops[n].requestId \notin DOMAIN abortSubjects'
               /\ ops[n].requestId \notin DOMAIN requestMetadata'
       /\ \A id \in RequestIds :
            (\/ id \notin DOMAIN abortSubjects /\ id \in DOMAIN abortSubjects'
             \/ id \notin DOMAIN requestMetadata /\ id \in DOMAIN requestMetadata')
            => /\ Len(ops') = Len(ops) + 1
               /\ ops'[Len(ops')].requestId = id]_vars

C4_Witness ==
    \E n, m \in Calls :
        /\ n < m /\ ops[n].requestId = ops[m].requestId
        /\ ops[n].phase \in {"succeeded", "failed"}
        /\ Terminal(m) /\ ~Registered(ops[m].requestId)

\* C5: every started request whose transport has settled has a terminal
\* log, and right after its transport settles or its id is passed to
\* abortRequest it has a terminal log and its id is in neither store.
C5_StartedRequestIsFinalized ==
    \A n \in Calls :
        /\ ops[n].phase \in {"succeeded", "failed"} => Terminal(n)
        /\ (/\ Started(n)
            /\ lastOp.id = ops[n].requestId
            /\ \/ lastOp.op = "abortRequest"
               \/ lastOp.op \in Outcomes /\ ops[n].phase \in {"succeeded", "failed"})
           => /\ Terminal(n)
              /\ ops[n].requestId \notin DOMAIN abortSubjects
              /\ ops[n].requestId \notin DOMAIN requestMetadata

\* C6: abortRequest(id) on a registered id appends exactly one logAborted;
\* a second abortRequest(id) right after it logs nothing, signals nothing,
\* does not throw and leaves both stores unchanged.
C6_AbortTwice ==
    [][\A id \in RequestIds :
        /\ (Registered(id) /\ AbortRequest(id))
           => /\ ~lastOp'.threw
              /\ \E n \in Calls :
                    /\ aiLog' = [aiLog EXCEPT ![n] = Append(@, "aborted")]
                    /\ subjects'[n].signals = subjects[n].signals + 1
        /\ (lastOp.op = "abortRequest" /\ lastOp.id = id /\ AbortRequest(id))
           => ~lastOp'.threw /\ FrameUnchanged]_vars

C6_Witness ==
    /\ lastOp.op = "abortRequest" /\ lastOp.again
    /\ \E n \in Calls :
        /\ ops[n].requestId = lastOp.id
        /\ aiLog[ops[n].logId] = <<"aborted">>

\* C7: abortRequest on an id that is not registered does not throw, calls no
\* logger method and changes neither store nor any request.
C7_AbortUnregisteredIsNoop ==
    [][\A id \in RequestIds :
        (~Registered(id) /\ AbortRequest(id)) => ~lastOp'.threw /\ FrameUnchanged]_vars

C7_Witness ==
    /\ lastOp.op = "abortRequest" /\ ~lastOp.again
    /\ \A n \in Calls : ops[n].requestId # lastOp.id
    /\ \E n \in Calls : Registered(ops[n].requestId) /\ ops[n].phase = "inflight"
    /\ \E n \in Calls : Terminal(n)

\* C8: a generateText call with the integration disabled, no API key or no
\* model (neither override nor default) throws, opens no audit entry, makes
\* no request and leaves both stores unchanged.
C8_Invalid(settings, options) ==
    \/ settings.enabled = FALSE
    \/ settings.apiKey = ""
    \/ options.model \in {Undefined, ""} /\ settings.model = ""

\* Read per step: a generateText step either throws and changes nothing, or
\* no invalid input produces it.
C8_ValidationFailure ==
    [][lastOp'.op = "generateText" =>
        \/ lastOp'.threw /\ FrameUnchanged
        \/ \A settings \in SettingsValues, options \in OptionsValues :
              C8_Invalid(settings, options) => ~GenerateText(settings, options)]_vars

C8_Witness ==
    /\ lastOp.op = "generateText" /\ lastOp.threw
    /\ DOMAIN abortSubjects # {}
    /\ \E n \in Calls : ops[n].phase = "inflight"

\* C9: a generateText call whose options.requestId is currently registered
\* fails and leaves the handle and metadata under that id as they were.
C9_DuplicateIdRejected ==
    [][\A settings \in SettingsValues, options \in OptionsValues :
        (/\ ~C8_Invalid(settings, options)
         /\ Truthy(options.requestId) /\ Registered(options.requestId)
         /\ GenerateText(settings, options))
        => /\ lastOp'.threw
           /\ abortSubjects' = abortSubjects
           /\ requestMetadata' = requestMetadata]_vars

\* C10: abortRequest(a), or the settlement of a request made under a, leaves
\* every other id b as it was: b's store entries, and the observable, the
\* Subject and the audit entry of every request made under b, so that b can
\* still settle or be aborted as before the step.
C10_Independent ==
    [][\A a \in RequestIds :
        (/\ lastOp'.id = a
         /\ \/ AbortRequest(a)
            \/ \E n \in Calls, outcome \in Outcomes : ops[n].requestId = a /\ Settle(n, outcome))
        => \A b \in RequestIds \ {a} :
            /\ (b \in DOMAIN abortSubjects') = (b \in DOMAIN abortSubjects)
            /\ (b \in DOMAIN requestMetadata') = (b \in DOMAIN requestMetadata)
            /\ b \in DOMAIN abortSubjects => abortSubjects'[b] = abortSubjects[b]
            /\ b \in DOMAIN requestMetadata => requestMetadata'[b] = requestMetadata[b]
            /\ \A m \in Calls : ops[m].requestId = b =>
                /\ ops'[m] = ops[m]
                /\ subjects'[m] = subjects[m]
                /\ aiLog'[ops[m].logId] = aiLog[ops[m].logId]
                \* a request in flight under its own registration has no terminal
                \* log yet: the one it gets when it ends is its only one
                /\ (ops'[m].phase = "inflight" /\ b \in DOMAIN abortSubjects'
                        /\ abortSubjects'[b] = m)
                   => aiLog'[ops[m].logId] = <<>>]_vars

C10_Witness ==
    \E n, m \in Calls :
        /\ ops[n].requestId # ops[m].requestId
        /\ lastOp.id = ops[n].requestId
        /\ lastOp.op \in {"abortRequest", "success", "error"}
        /\ Terminal(n)
        /\ ops[m].phase = "inflight" /\ ~Terminal(m)
        /\ Registered(ops[m].requestId) /\ abortSubjects[ops[m].requestId] = m

\* C11: a logger call that throws does not make generateText, abortRequest or
\* the handler fail, leaves the outcome delivered to the subscriber as the
\* transport gave it, and the request's id is still released.
C11_LoggerFailureSwallowed ==
    lastOp.logFailed =>
        /\ ~lastOp.threw
        /\ lastOp.op \in Outcomes =>
              \A n \in Calls :
                  (ops[n].requestId = lastOp.id /\ lastOp.op = "success")
                  => ops[n].phase # "failed"
        /\ lastOp.op \in Outcomes \cup {"abortRequest"} =>
              /\ lastOp.id \notin DOMAIN abortSubjects
              /\ lastOp.id \notin DOMAIN requestMetadata

\* C12: a request whose abort has been logged never has a result or an error
\* delivered to its subscriber.
C12_AbortedNeverDelivers ==
    \A n \in Calls :
        (\E i \in 1..Len(aiLog[ops[n].logId]) : aiLog[ops[n].logId][i] = "aborted")
        => ops[n].phase \notin {"succeeded", "failed"}

\* C13: the message passed to logError is the provider's error.error.message
\* when present, else the transport's error.message when present, else
\* "Unknown error".
C13_ErrorMessagePreference ==
    lastOp.op = "logError" =>
        LET error == lastOp.error
            structured == IF error.error # None THEN error.error[1].message ELSE Undefined
        IN lastOp.message =
             IF Truthy(structured) THEN structured
             ELSE IF Truthy(error.message) THEN error.message
             ELSE "Unknown error"

\* C14: temperature and top_p of the request body are the caller's option
\* whenever it is present, 0 included, and the settings default otherwise.
C14_SamplingOptionsHonored ==
    (lastOp.op = "request" /\ ~lastOp.result.threw) =>
        LET options == lastOp.options
            settings == lastOp.settings
            request == lastOp.result.request
        IN /\ options.temperature # None => request.temperature = options.temperature[1]
           /\ options.temperature = None => request.temperature = settings.temperature
           /\ options.topP # None => request.top_p = options.topP[1]
           /\ options.topP = None => request.top_p = settings.topP

C14_Witness ==
    /\ lastOp.op = "request" /\ ~lastOp.result.threw
    /\ lastOp.options.temperature = Some(0) /\ lastOp.settings.temperature = 7
    /\ lastOp.options.topP = None /\ lastOp.settings.topP = 10
    /\ lastOp.result.request.temperature = 0 /\ lastOp.result.request.top_p = 10

\* C15: the word count passed to logRequest is options.wordCount whenever it
\* is supplied, else floor(maxTokens / 1.3) with maxTokens = options.maxTokens
\* if supplied and 500 if not; the request body carries no word count.
C15_WordCountHint ==
    (lastOp.op = "request" /\ ~lastOp.result.threw) =>
        LET options == lastOp.options
            maxTokens == IF options.maxTokens # None THEN options.maxTokens[1] ELSE 500
        IN /\ lastOp.result.logRequest.wordCount =
                IF options.wordCount # None THEN options.wordCount[1]
                ELSE (maxTokens * 10) \div 13
           /\ "wordCount" \notin DOMAIN lastOp.result.request

\* C16: every request body generateText assembles has a non-empty model and
\* max_tokens greater than 0.
C16_RequestInvariant ==
    (lastOp.op = "request" /\ ~lastOp.result.threw) =>
        /\ lastOp.result.request.model \notin {Undefined, ""}
        /\ lastOp.result.request.max_tokens > 0

\* C17: in the lifetime of a request id, logRequest and the registration come
\* first, the transport call is issued while the registration is in place,
\* and a generateText call is accepted under the id only when the id is not
\* registered.
C17_LifetimeOrder ==
    [][/\ Len(ops') > Len(ops) =>
            LET id == ops'[Len(ops')].requestId
            IN /\ Len(aiLog') = Len(ops')
               /\ id \in DOMAIN abortSubjects' /\ id \in DOMAIN requestMetadata'
               /\ ops'[Len(ops')].phase = "cold"
               /\ id \notin DOMAIN abortSubjects /\ id \notin DOMAIN requestMetadata
       /\ \A n \in Calls :
            (ops[n].phase = "cold" /\ ops'[n].phase = "inflight")
            => /\ ops[n].requestId \in DOMAIN abortSubjects
               /\ abortSubjects[ops[n].requestId] = n]_vars

\* C18: a Subject is signalled at most once, only by abortRequest on the id
\* of its own request and never once stopped; it is completed and out of the
\* registry exactly from the step in which its request gets its first
\* terminal log.
C18_HandleLifecycle ==
    [][\A n \in Calls :
        LET terminates == aiLog[ops[n].logId] = <<>> /\ aiLog'[ops[n].logId] # <<>>
            released == ~subjects[n].stopped /\ subjects'[n].stopped
        IN /\ subjects'[n].signals <= 1
           /\ subjects'[n].signals > subjects[n].signals
              => /\ lastOp'.op = "abortRequest" /\ lastOp'.id = ops[n].requestId
                 /\ ~subjects[n].stopped
           /\ terminates <=> released
           /\ terminates => \A id \in DOMAIN abortSubjects' : abortSubjects'[id] # n]_vars

\* C19: while no generateText call reuses a registered id, every admitted
\* request without a terminal log is in both stores under its own id, with
\* its own Subject and its own log id, so that abortRequest on its id reaches
\* it.
C19_InflightIsAbortable ==
    \A n \in Calls :
        ~Terminal(n) =>
            /\ ops[n].requestId \in DOMAIN abortSubjects
            /\ abortSubjects[ops[n].requestId] = n
            /\ ops[n].requestId \in DOMAIN requestMetadata
            /\ requestMetadata[ops[n].requestId].logId = ops[n].logId

\* C20: the settlement of a request leaves in place every Subject and
\* metadata record that another request registered.
C20_ReleasesOnlyOwn ==
    [][\A n \in Calls :
        (ops[n].phase = "inflight" /\ ops'[n].phase \in {"succeeded", "failed"})
        => \A id \in DOMAIN abortSubjects :
              abortSubjects[id] # n
              => /\ id \in DOMAIN abortSubjects' /\ abortSubjects'[id] = abortSubjects[id]
                 /\ id \in DOMAIN requestMetadata'
                 /\ requestMetadata'[id] = requestMetadata[id]]_vars

====
